---- MODULE Spec2Model ----
(***************************************************************************)
(* Model of iota/commands/extended/utils.py:                               *)
(*   iter_used_addresses                  (the address usage scanner)      *)
(*   get_bundles_from_transaction_hashes  (the bundle resolver)            *)
(* Each await on a facade command is one step of the state machine.        *)
(***************************************************************************)
EXTENDS Integers, Sequences, FiniteSets, TLC

\* ------------------------------------------------------------------------
\* Bounds
\* ------------------------------------------------------------------------
\* address indices 0 .. MaxIndex-1 have individually chosen ledger answers;
\* every index from MaxIndex on has the same answer (variable beyond)
MaxIndex == 3
\* the caller's start index ranges over 0 .. MaxStart
MaxStart == 2
\* longest input list of transaction hashes handed to the resolver
MaxInput == 3
\* tail timestamps range over 1 .. MaxTimestamp
MaxTimestamp == 2

\* the indices from IndexCap on, which all lie in the region where the
\* ledger answers alike, are folded into the one value IndexCap: the scan
\* goes on there as the code does, and the logs keep what happened below
IndexCap == MaxIndex + MaxStart + 1

VARIABLES
    \* ---- scanner: the ledger and the call's argument
    start,          \* argument start
    findTx,         \* index -> hashes find-transactions reports for the address
    spent,          \* index -> state were-addresses-spent-from reports
    beyond,         \* answer for every index >= MaxIndex
    \* ---- scanner: the async generator
    spc,            \* position of the generator
    idx,            \* index of the address the for loop holds (addy)
    pending,        \* TRUE while a pull of the consumer is being served
    yielded,        \* results delivered so far, in order
    ftLog,          \* find-transactions calls issued: <<index, response>>
    wasfLog,        \* were-addresses-spent-from calls issued: <<index, state>>
    scanError,      \* the exception that ended the generator, or "none"
    \* ---- resolver: the ledger and the call's arguments
    input,          \* argument transaction_hashes, as a list
    inclusion,      \* argument inclusion_states
    timestamp,      \* bundle -> timestamp of its tail transaction
    states,         \* tail hash -> state get-latest-inclusion-states reports
    pruned,         \* tail hashes whose bundle get-bundles cannot deliver
    gtLost,         \* hashes for which get-trytes delivers nothing
    ftoLost,        \* transactions find-transaction-objects does not deliver
    \* ---- resolver: the coroutine
    rpc,            \* position of the coroutine
    allTxns,        \* all_transactions
    tailHashes,     \* tail_transaction_hashes
    nonTailBundles, \* non_tail_bundle_hashes
    tailTxns,       \* tail_transactions
    result,         \* the returned list
    calls,          \* names of the facade calls issued, in order
    gtCalls,        \* arguments of the get-trytes calls
    ftoCalls,       \* arguments of the find-transaction-objects calls
    gliCalls,       \* arguments of the get-latest-inclusion-states calls
    gbCalls,        \* arguments of the get-bundles calls
    gbResponse,     \* txn_bundles as get-bundles delivered it
    resError        \* the exception that ended the coroutine, or "none"

scanVars == <<start, findTx, spent, beyond, spc, idx, pending, yielded,
              ftLog, wasfLog, scanError>>
resVars == <<input, inclusion, timestamp, states, pruned, gtLost, ftoLost,
             rpc, allTxns, tailHashes, nonTailBundles, tailTxns, result,
             calls, gtCalls, ftoCalls, gliCalls, gbCalls, gbResponse,
             resError>>
vars == <<start, findTx, spent, beyond, spc, idx, pending, yielded,
          ftLog, wasfLog, scanError, input, inclusion, timestamp, states,
          pruned, gtLost, ftoLost, rpc, allTxns, tailHashes, nonTailBundles,
          tailTxns, result, calls, gtCalls, ftoCalls, gliCalls, gbCalls,
          gbResponse, resError>>

\* ------------------------------------------------------------------------
\* Scanner: iter_used_addresses
\* ------------------------------------------------------------------------
\* the hash lists find-transactions may report for one address
FtAnswers == {<<>>, <<1>>, <<2, 1>>}

\* ft_command(addresses=[addy])['hashes'] for the address with index i
FindTransactions(i) ==
    IF i \in DOMAIN findTx THEN findTx[i]
    ELSE IF i >= MaxIndex /\ beyond = "txns" THEN <<1>> ELSE <<>>

\* wasf_command(addresses=[addy])['states'][0] for the address with index i
WereSpentFrom(i) ==
    IF i \in DOMAIN spent THEN spent[i]
    ELSE i >= MaxIndex /\ beyond = "spent"

\* the index after i in the address iterator
NextIndex(i) == IF i < IndexCap THEN i + 1 ELSE IndexCap

\* the log with the entry for index i added
Record(log, i, entry) == IF i < IndexCap THEN Append(log, entry) ELSE log

\* the mutant lets the address iterator begin at any index
ValidStartAny(s) == TRUE

\* AddressGenerator.create_iterator(start) produces addresses from a start
\* index that is not negative and rejects any other
ValidStart(s) == s >= 0

\* the consumer pulls (anext): the generator starts, or resumes after a
\* yield, and the for loop takes the next address from the iterator; an
\* iterator that rejects the start index ends the generator at once
Pull ==
    /\ spc \in {"created", "yielded"}
    /\ ~pending
    /\ IF spc = "created" /\ ~ValidStart(start)
       THEN /\ spc' = "failed"
            /\ scanError' = "invalid-argument"
            /\ UNCHANGED <<pending, idx>>
       ELSE /\ pending' = TRUE
            /\ idx' = IF spc = "created" THEN start ELSE NextIndex(idx)
            /\ spc' = "ft"
            /\ UNCHANGED scanError
    /\ UNCHANGED <<start, findTx, spent, beyond, yielded, ftLog, wasfLog>>
    /\ UNCHANGED resVars

\* the mutant yields the empty list for an address that has transactions
FtCallYieldsEmpty ==
    /\ spc = "ft"
    /\ LET hashes == FindTransactions(idx) IN
        /\ ftLog' = Record(ftLog, idx, <<idx, hashes>>)
        /\ IF hashes # <<>>
           THEN /\ yielded' = Record(yielded, idx, <<idx, <<>>>>)
                /\ pending' = FALSE
                /\ spc' = "yielded"
           ELSE /\ spc' = "wasf"
                /\ UNCHANGED <<yielded, pending>>
    /\ UNCHANGED <<start, findTx, spent, beyond, scanError, idx, wasfLog>>
    /\ UNCHANGED resVars

\* the mutant asks were-addresses-spent-from for every address
FtCallAlwaysChecksSpent ==
    /\ spc = "ft"
    /\ LET hashes == FindTransactions(idx) IN
        /\ ftLog' = Record(ftLog, idx, <<idx, hashes>>)
        /\ spc' = "wasf"
        /\ UNCHANGED <<yielded, pending>>
    /\ UNCHANGED <<start, findTx, spent, beyond, scanError, idx, wasfLog>>
    /\ UNCHANGED resVars

\* the mutant asks about the next address before it hands out a result
FtCallPrefetches ==
    /\ spc = "ft"
    /\ LET hashes == FindTransactions(idx) IN
        IF hashes # <<>>
        THEN /\ ftLog' = Record(Record(ftLog, idx, <<idx, hashes>>), idx + 1,
                                <<idx + 1, FindTransactions(idx + 1)>>)
             /\ yielded' = Record(yielded, idx, <<idx, hashes>>)
             /\ pending' = FALSE
             /\ spc' = "yielded"
        ELSE /\ ftLog' = Record(ftLog, idx, <<idx, hashes>>)
             /\ spc' = "wasf"
             /\ UNCHANGED <<yielded, pending>>
    /\ UNCHANGED <<start, findTx, spent, beyond, scanError, idx, wasfLog>>
    /\ UNCHANGED resVars

\* await ft_command(addresses=[addy]); a non-empty answer is yielded
FtCall ==
    /\ spc = "ft"
    /\ LET hashes == FindTransactions(idx) IN
        /\ ftLog' = Record(ftLog, idx, <<idx, hashes>>)
        /\ IF hashes # <<>>
           THEN /\ yielded' = Record(yielded, idx, <<idx, hashes>>)
                /\ pending' = FALSE
                /\ spc' = "yielded"
           ELSE /\ spc' = "wasf"
                /\ UNCHANGED <<yielded, pending>>
    /\ UNCHANGED <<start, findTx, spent, beyond, scanError, idx, wasfLog>>
    /\ UNCHANGED resVars

\* the mutant goes on to the next address instead of leaving the loop
WasfCallContinues ==
    /\ spc = "wasf"
    /\ LET state == WereSpentFrom(idx) IN
        /\ wasfLog' = Record(wasfLog, idx, <<idx, state>>)
        /\ IF state
           THEN /\ yielded' = Record(yielded, idx, <<idx, <<>>>>)
                /\ pending' = FALSE
                /\ spc' = "yielded"
                /\ idx' = idx
           ELSE /\ spc' = "ft"
                /\ idx' = NextIndex(idx)
                /\ UNCHANGED <<yielded, pending>>
    /\ UNCHANGED <<start, findTx, spent, beyond, scanError, ftLog>>
    /\ UNCHANGED resVars

\* the mutant treats an unspent address like a spent one
WasfCallYieldsUnspent ==
    /\ spc = "wasf"
    /\ LET state == WereSpentFrom(idx) IN
        /\ wasfLog' = Record(wasfLog, idx, <<idx, state>>)
        /\ yielded' = Record(yielded, idx, <<idx, <<>>>>)
        /\ pending' = FALSE
        /\ spc' = "yielded"
    /\ UNCHANGED <<start, findTx, spent, beyond, scanError, idx, ftLog>>
    /\ UNCHANGED resVars

\* await wasf_command(addresses=[addy]); a spent address is yielded with
\* no hashes, an unspent one ends the loop and with it the sequence
WasfCall ==
    /\ spc = "wasf"
    /\ LET state == WereSpentFrom(idx) IN
        /\ wasfLog' = Record(wasfLog, idx, <<idx, state>>)
        /\ IF state
           THEN /\ yielded' = Record(yielded, idx, <<idx, <<>>>>)
                /\ pending' = FALSE
                /\ spc' = "yielded"
           ELSE /\ spc' = "done"
                /\ pending' = FALSE
                /\ UNCHANGED yielded
    /\ UNCHANGED <<start, findTx, spent, beyond, scanError, idx, ftLog>>
    /\ UNCHANGED resVars

ScanNext == Pull \/ FtCall \/ WasfCall

\* the command the generator is waiting for
ScanCommandAt(pc) ==
    IF pc = "ft" THEN "find-transactions" ELSE "were-addresses-spent-from"

\* the mutant catches the exception and issues the call again
ScanFailRetries ==
    /\ spc \in {"ft", "wasf"}
    /\ scanError' = ScanCommandAt(spc)
    /\ UNCHANGED <<start, findTx, spent, beyond, spc, idx, pending, yielded,
                   ftLog, wasfLog>>
    /\ UNCHANGED resVars

\* the awaited command raises: nothing in the generator catches it, so it
\* reaches the consumer at this pull and the generator is finished
ScanFail ==
    /\ spc \in {"ft", "wasf"}
    /\ scanError' = ScanCommandAt(spc)
    /\ spc' = "failed"
    /\ pending' = FALSE
    /\ UNCHANGED <<start, findTx, spent, beyond, idx, yielded, ftLog, wasfLog>>
    /\ UNCHANGED resVars

\* ------------------------------------------------------------------------
\* The ledger the resolver queries
\* ------------------------------------------------------------------------
\* bundle A is the transactions 1 (tail), 2, 3; bundle B is 4 (tail), 5
Bundles == {"A", "B"}
Hashes == {1, 2, 3, 4, 5}
BundleOf(h) == IF h \in {1, 2, 3} THEN "A" ELSE "B"
IsTail(h) == h \in {1, 4}
TailHashes == {h \in Hashes : IsTail(h)}
\* what get-latest-inclusion-states reports for a hash; "none": no state
Flags == {"true", "false", "none"}

\* Transaction.from_tryte_string of the trytes stored for hash h; the
\* confirmation flag of a fresh Transaction is unset
Txn(h) ==
    [hash |-> h, bundle_hash |-> BundleOf(h), is_tail |-> IsTail(h),
     timestamp |-> timestamp[BundleOf(h)], is_confirmed |-> "none"]

\* the Bundle get-bundles builds for tail hash h
BundleFor(h) ==
    [tail |-> h, bundle_hash |-> BundleOf(h),
     timestamp |-> timestamp[BundleOf(h)], is_confirmed |-> "none"]

Min(a, b) == IF a < b THEN a ELSE b

\* the orders in which a set can be delivered as a list
RECURSIVE Orders(_)
Orders(S) ==
    IF S = {} THEN {<<>>}
    ELSE UNION {{<<x>> \o rest : rest \in Orders(S \ {x})} : x \in S}

\* gt_response['trytes'] decoded: one transaction per requested hash the
\* node has trytes for, in the order of the request
RECURSIVE GetTrytesResponse(_)
GetTrytesResponse(hashes) ==
    IF hashes = <<>> THEN <<>>
    ELSE IF Head(hashes) \in gtLost
         THEN GetTrytesResponse(Tail(hashes))
         ELSE <<Txn(Head(hashes))>> \o GetTrytesResponse(Tail(hashes))

\* the transactions find-transaction-objects may deliver for the bundles
FindTransactionObjectsContent(bundleHashes) ==
    {h \in Hashes : BundleOf(h) \in bundleHashes} \ ftoLost

\* the lists in which find-transaction-objects may deliver them: the loop
\* over the response passes over a non-tail transaction without any effect,
\* so the lists differ in the order of the tail transactions only
FindTransactionObjectsResponses(bundleHashes) ==
    LET content == FindTransactionObjectsContent(bundleHashes)
        tails == {h \in content : IsTail(h)}
        others == CHOOSE o \in Orders(content \ tails) : TRUE
    IN {others \o o : o \in Orders(tails)}

\* gli_response['states'].get(h)
InclusionState(h) == IF h \in DOMAIN states THEN states[h] ELSE "none"

\* ['bundles'] of get-bundles: the bundles of the requested tails in the
\* order of the request, without those the node cannot deliver
RECURSIVE GetBundlesResponse(_)
GetBundlesResponse(hashes) ==
    IF hashes = <<>> THEN <<>>
    ELSE IF Head(hashes) \in pruned
         THEN GetBundlesResponse(Tail(hashes))
         ELSE <<BundleFor(Head(hashes))>> \o GetBundlesResponse(Tail(hashes))

\* ------------------------------------------------------------------------
\* Resolver: get_bundles_from_transaction_hashes
\* ------------------------------------------------------------------------
\* the loop over all_transactions that sorts them into tail and non-tail
TailHashesOf(txns) ==
    {txns[k].hash : k \in {j \in DOMAIN txns : txns[j].is_tail}}
NonTailBundlesOf(txns) ==
    {txns[k].bundle_hash : k \in {j \in DOMAIN txns : ~txns[j].is_tail}}

\* the mutant appends every tail transaction found, known or not
RECURSIVE MergeTailsNoDedup(_, _, _)
MergeTailsNoDedup(resp, all, tails) ==
    IF resp = <<>> THEN <<all, tails>>
    ELSE LET txn == Head(resp) IN
         IF txn.is_tail
         THEN MergeTailsNoDedup(Tail(resp), Append(all, txn),
                                tails \cup {txn.hash})
         ELSE MergeTailsNoDedup(Tail(resp), all, tails)

\* the loop over the find-transaction-objects response: a tail transaction
\* not yet known is appended to all_transactions and its hash recorded
RECURSIVE MergeTails(_, _, _)
MergeTails(resp, all, tails) ==
    IF resp = <<>> THEN <<all, tails>>
    ELSE LET txn == Head(resp) IN
         IF txn.is_tail /\ txn.hash \notin tails
         THEN MergeTails(Tail(resp), Append(all, txn), tails \cup {txn.hash})
         ELSE MergeTails(Tail(resp), all, tails)

\* the mutant keeps every transaction
FilterTailsKeepsAll(txns, tails) == txns

\* tail_transactions: the transactions whose hash is a tail hash
RECURSIVE FilterTails(_, _)
FilterTails(txns, tails) ==
    IF txns = <<>> THEN <<>>
    ELSE IF Head(txns).hash \in tails
         THEN <<Head(txns)>> \o FilterTails(Tail(txns), tails)
         ELSE FilterTails(Tail(txns), tails)

\* the mutant takes a hash without a state for unconfirmed
AttachStatesDefaultFalse(txns) ==
    [k \in DOMAIN txns |->
        [txns[k] EXCEPT !.is_confirmed =
            IF InclusionState(txns[k].hash) = "none" THEN "false"
            ELSE InclusionState(txns[k].hash)]]

\* txn.is_confirmed = gli_response['states'].get(txn.hash)
AttachStates(txns) ==
    [k \in DOMAIN txns |->
        [txns[k] EXCEPT !.is_confirmed = InclusionState(txns[k].hash)]]

\* for bundle, txn in zip(txn_bundles, tail_transactions):
\*     bundle.is_confirmed = txn.is_confirmed
ZipConfirmed(bundles, txns) ==
    [k \in DOMAIN bundles |->
        IF k <= Min(Len(bundles), Len(txns))
        THEN [bundles[k] EXCEPT !.is_confirmed = txns[k].is_confirmed]
        ELSE bundles[k]]

\* sorted() is stable: b goes behind every element whose key is <= its own
RECURSIVE InsertByTimestamp(_, _)
InsertByTimestamp(b, sorted) ==
    IF sorted = <<>> THEN <<b>>
    ELSE IF Head(sorted).timestamp <= b.timestamp
         THEN <<Head(sorted)>> \o InsertByTimestamp(b, Tail(sorted))
         ELSE <<b>> \o sorted

RECURSIVE SortFrom(_, _)
SortFrom(bundles, sorted) ==
    IF bundles = <<>> THEN sorted
    ELSE SortFrom(Tail(bundles), InsertByTimestamp(Head(bundles), sorted))

\* the bundles without those whose timestamp an earlier one has
RECURSIVE DropTies(_, _)
DropTies(bundles, seen) ==
    IF bundles = <<>> THEN <<>>
    ELSE IF Head(bundles).timestamp \in seen
         THEN DropTies(Tail(bundles), seen)
         ELSE <<Head(bundles)>>
              \o DropTies(Tail(bundles), seen \cup {Head(bundles).timestamp})

\* the mutant keeps one bundle per timestamp
SortByTimestampDropsTies(bundles) == SortFrom(DropTies(bundles, {}), <<>>)

\* the mutant sorts the reversed list, which turns ties around
SortByTimestampReversesTies(bundles) ==
    SortFrom([k \in DOMAIN bundles |-> bundles[Len(bundles) + 1 - k]], <<>>)

\* the mutant returns the bundles in the order get-bundles delivered them
SortByTimestampUnsorted(bundles) == bundles

\* sorted(txn_bundles, key=tail_transaction.timestamp)
SortByTimestamp(bundles) == SortFrom(bundles, <<>>)

\* the mutant asks for the inclusion states whether requested or not
AfterFilterAlwaysGli == "gli"

\* where the coroutine goes once tail_transactions is built
AfterFilter == IF inclusion THEN "gli" ELSE "gb"

\* the mutant queries the ledger for an empty input as well
CallNoShortCircuit ==
    /\ rpc = "called"
    /\ rpc' = "gt"
    /\ UNCHANGED <<input, inclusion, timestamp, states, pruned, gtLost,
                   ftoLost, resError, allTxns,
                   tailHashes, nonTailBundles, tailTxns, result, calls,
                   gtCalls, ftoCalls, gliCalls, gbCalls>>
    /\ UNCHANGED gbResponse
    /\ UNCHANGED scanVars

\* entry: transaction_hashes = list(...); an empty list returns [] at once
Call ==
    /\ rpc = "called"
    /\ IF input = <<>>
       THEN /\ result' = <<>>
            /\ rpc' = "done"
       ELSE /\ rpc' = "gt"
            /\ UNCHANGED result
    /\ UNCHANGED <<input, inclusion, timestamp, states, pruned, gtLost,
                   ftoLost, resError, allTxns,
                   tailHashes, nonTailBundles, tailTxns, calls,
                   gtCalls, ftoCalls, gliCalls, gbCalls>>
    /\ UNCHANGED gbResponse
    /\ UNCHANGED scanVars

\* the mutant looks for tail transactions even without a non-tail bundle
GetTrytesAlwaysFinds ==
    /\ rpc = "gt"
    /\ LET all == GetTrytesResponse(input)
       IN /\ calls' = Append(calls, "get-trytes")
          /\ gtCalls' = Append(gtCalls, input)
          /\ allTxns' = all
          /\ tailHashes' = TailHashesOf(all)
          /\ nonTailBundles' = NonTailBundlesOf(all)
          /\ rpc' = "fto"
          /\ UNCHANGED tailTxns
    /\ UNCHANGED <<input, inclusion, timestamp, states, pruned, gtLost,
                   ftoLost, resError, result, ftoCalls, gliCalls, gbCalls>>
    /\ UNCHANGED gbResponse
    /\ UNCHANGED scanVars

\* await GetTrytesCommand, decode, sort into tail and non-tail; without
\* non-tail transactions the code goes straight on to tail_transactions
GetTrytes ==
    /\ rpc = "gt"
    /\ LET all == GetTrytesResponse(input)
           tails == TailHashesOf(all)
           nonTails == NonTailBundlesOf(all)
       IN /\ calls' = Append(calls, "get-trytes")
          /\ gtCalls' = Append(gtCalls, input)
          /\ allTxns' = all
          /\ tailHashes' = tails
          /\ nonTailBundles' = nonTails
          /\ IF nonTails # {}
             THEN /\ rpc' = "fto"
                  /\ UNCHANGED tailTxns
             ELSE /\ rpc' = AfterFilter
                  /\ tailTxns' = FilterTails(all, tails)
    /\ UNCHANGED <<input, inclusion, timestamp, states, pruned, gtLost,
                   ftoLost, resError, result,
                   ftoCalls, gliCalls, gbCalls>>
    /\ UNCHANGED gbResponse
    /\ UNCHANGED scanVars

\* await FindTransactionObjectsCommand(bundles=list(non_tail_bundle_hashes)):
\* the transactions of those bundles arrive in an order the node chooses
FindTransactionObjects ==
    /\ rpc = "fto"
    /\ \E order \in FindTransactionObjectsResponses(nonTailBundles) :
        LET resp == [k \in DOMAIN order |-> Txn(order[k])]
            merged == MergeTails(resp, allTxns, tailHashes)
        IN /\ allTxns' = merged[1]
           /\ tailHashes' = merged[2]
           /\ tailTxns' = FilterTails(merged[1], merged[2])
    /\ calls' = Append(calls, "find-transaction-objects")
    /\ ftoCalls' = Append(ftoCalls, nonTailBundles)
    /\ rpc' = AfterFilter
    /\ UNCHANGED <<input, inclusion, timestamp, states, pruned, gtLost,
                   ftoLost, resError,
                   nonTailBundles, result, gtCalls, gliCalls, gbCalls>>
    /\ UNCHANGED gbResponse
    /\ UNCHANGED scanVars

\* await GetLatestInclusionCommand(hashes=list(tail_transaction_hashes))
\* and set is_confirmed of every tail transaction
GetLatestInclusion ==
    /\ rpc = "gli"
    /\ calls' = Append(calls, "get-latest-inclusion-states")
    /\ gliCalls' = Append(gliCalls, tailHashes)
    /\ tailTxns' = AttachStates(tailTxns)
    /\ rpc' = "gb"
    /\ UNCHANGED <<input, inclusion, timestamp, states, pruned, gtLost,
                   ftoLost, resError, allTxns,
                   tailHashes, nonTailBundles, result, gtCalls, ftoCalls,
                   gbCalls>>
    /\ UNCHANGED gbResponse
    /\ UNCHANGED scanVars

\* await GetBundlesCommand(transactions=[txn.hash for txn in
\* tail_transactions]), copy the flags, sort and return
GetBundles ==
    /\ rpc = "gb"
    /\ LET request == [k \in DOMAIN tailTxns |-> tailTxns[k].hash]
           txn_bundles == GetBundlesResponse(request)
           flagged == IF inclusion THEN ZipConfirmed(txn_bundles, tailTxns)
                      ELSE txn_bundles
       IN /\ calls' = Append(calls, "get-bundles")
          /\ gbCalls' = Append(gbCalls, request)
          /\ gbResponse' = txn_bundles
          /\ result' = SortByTimestamp(flagged)
    /\ rpc' = "done"
    /\ UNCHANGED <<input, inclusion, timestamp, states, pruned, gtLost,
                   ftoLost, resError, allTxns,
                   tailHashes, nonTailBundles, tailTxns, gtCalls, ftoCalls,
                   gliCalls>>
    /\ UNCHANGED scanVars

ResolveNext ==
    Call \/ GetTrytes \/ FindTransactionObjects \/ GetLatestInclusion
        \/ GetBundles

\* the command the coroutine is waiting for
CommandAt(pc) ==
    IF pc = "gt" THEN "get-trytes"
    ELSE IF pc = "fto" THEN "find-transaction-objects"
    ELSE IF pc = "gli" THEN "get-latest-inclusion-states"
    ELSE "get-bundles"

\* the coroutine issues the command it is waiting for
IssueCommand ==
    /\ calls' = Append(calls, CommandAt(rpc))
    /\ gtCalls' = IF rpc = "gt" THEN Append(gtCalls, input) ELSE gtCalls
    /\ ftoCalls' = IF rpc = "fto" THEN Append(ftoCalls, nonTailBundles)
                   ELSE ftoCalls
    /\ gliCalls' = IF rpc = "gli" THEN Append(gliCalls, tailHashes)
                   ELSE gliCalls
    /\ gbCalls' = IF rpc = "gb"
                  THEN Append(gbCalls,
                              [k \in DOMAIN tailTxns |-> tailTxns[k].hash])
                  ELSE gbCalls

\* the mutant catches a failure of get-latest-inclusion-states and goes on
\* without the states
ResolveFailSwallowed ==
    /\ rpc \in {"gt", "fto", "gli", "gb"}
    /\ IssueCommand
    /\ resError' = CommandAt(rpc)
    /\ rpc' = IF rpc = "gli" THEN "gb" ELSE "failed"
    /\ UNCHANGED <<input, inclusion, timestamp, states, pruned, gtLost,
                   ftoLost, allTxns, tailHashes, nonTailBundles, tailTxns,
                   result, gbResponse>>
    /\ UNCHANGED scanVars

\* the awaited command raises: nothing in the coroutine catches it, so the
\* call ends with that exception and returns nothing
ResolveFail ==
    /\ rpc \in {"gt", "fto", "gli", "gb"}
    /\ IssueCommand
    /\ resError' = CommandAt(rpc)
    /\ rpc' = "failed"
    /\ UNCHANGED <<input, inclusion, timestamp, states, pruned, gtLost,
                   ftoLost, allTxns, tailHashes, nonTailBundles, tailTxns,
                   result, gbResponse>>
    /\ UNCHANGED scanVars

\* ------------------------------------------------------------------------
\* Initial states and specifications
\* ------------------------------------------------------------------------
\* the lists of at most n elements of S
SeqUpTo(S, n) == UNION {[1..k -> S] : k \in 0..n}

ScanIdle ==
    /\ start = 0
    /\ findTx = [i \in 0..(MaxIndex - 1) |-> <<>>]
    /\ spent = [i \in 0..(MaxIndex - 1) |-> FALSE]
    /\ beyond = "unused"
    /\ spc = "off"
    /\ idx = 0
    /\ pending = FALSE
    /\ yielded = <<>>
    /\ ftLog = <<>>
    /\ wasfLog = <<>>
    /\ scanError = "none"

ResolveIdle ==
    /\ input = <<>>
    /\ inclusion = FALSE
    /\ timestamp = [b \in Bundles |-> 1]
    /\ states = [h \in TailHashes |-> "none"]
    /\ pruned = {}
    /\ gtLost = {}
    /\ ftoLost = {}
    /\ rpc = "off"
    /\ allTxns = <<>>
    /\ tailHashes = {}
    /\ nonTailBundles = {}
    /\ tailTxns = <<>>
    /\ result = <<>>
    /\ calls = <<>>
    /\ gtCalls = <<>>
    /\ ftoCalls = <<>>
    /\ gliCalls = <<>>
    /\ gbCalls = <<>>
    /\ gbResponse = <<>>
    /\ resError = "none"

\* iter_used_addresses(adapter, seed, start) has been called with some
\* integer as start: the generator exists and has not run yet
ScanCreated(starts) ==
    /\ start \in starts
    /\ findTx \in [0..(MaxIndex - 1) -> FtAnswers]
    /\ spent \in [0..(MaxIndex - 1) -> BOOLEAN]
    /\ beyond \in {"txns", "spent", "unused"}
    /\ spc = "created"
    /\ idx = 0
    /\ pending = FALSE
    /\ yielded = <<>>
    /\ ftLog = <<>>
    /\ wasfLog = <<>>
    /\ scanError = "none"
    /\ ResolveIdle

\* the start indices the contract allows
ScanInit == ScanCreated(0..MaxStart)

\* the start indices the contract allows and negative ones
ScanInitAnyStart == ScanCreated((0 - MaxStart)..MaxStart)

\* the sets of at most one element of S
AtMostOne(S) == {{}} \cup {{x} : x \in S}

\* get_bundles_from_transaction_hashes(adapter, input, inclusion) has been
\* called
ResolveCalled ==
    /\ input \in SeqUpTo(Hashes, MaxInput)
    /\ inclusion \in BOOLEAN
    /\ timestamp \in [Bundles -> 1..MaxTimestamp]
    /\ rpc = "called"
    /\ allTxns = <<>>
    /\ tailHashes = {}
    /\ nonTailBundles = {}
    /\ tailTxns = <<>>
    /\ result = <<>>
    /\ calls = <<>>
    /\ gtCalls = <<>>
    /\ ftoCalls = <<>>
    /\ gliCalls = <<>>
    /\ gbCalls = <<>>
    /\ gbResponse = <<>>
    /\ resError = "none"
    /\ ScanIdle

\* the call against a ledger one of whose commands may deliver less than
\* was requested: get-bundles without the bundles of the tails in pruned,
\* get-trytes without a hash, find-transaction-objects without a tail; the
\* inclusion states are chosen when the call asks for them
ResolveInitPartial ==
    /\ ResolveCalled
    /\ states \in IF inclusion THEN [TailHashes -> {"true", "false"}]
                  ELSE {[h \in TailHashes |-> "none"]}
    /\ pruned \in SUBSET TailHashes
    /\ gtLost \in AtMostOne(Hashes)
    /\ ftoLost \in AtMostOne(TailHashes)
    /\ \/ pruned = {} /\ gtLost = {}
       \/ pruned = {} /\ ftoLost = {}
       \/ gtLost = {} /\ ftoLost = {}

\* the call against a ledger that delivers every item requested
ResolveInit ==
    /\ ResolveCalled
    /\ states \in [TailHashes -> Flags]
    /\ pruned = {}
    /\ gtLost = {}
    /\ ftoLost = {}

Init == ScanInit \/ ResolveInit

InitPartial == ScanInit \/ ResolveInitPartial

Next == ScanNext \/ ResolveNext

\* the facade delivers one item per requested item
Spec == Init /\ [][Next]_vars

\* a command may deliver fewer items than were requested
SpecPartial == InitPartial /\ [][Next]_vars

InitFail == ScanInitAnyStart \/ ResolveInit

NextFail == Next \/ ScanFail \/ ResolveFail

\* any awaited command may raise, and start may be negative
SpecFail == InitFail /\ [][NextFail]_vars

\* the consumer keeps pulling and every facade call returns
FairSpec ==
    /\ Init
    /\ [][Next]_vars
    /\ WF_vars(Pull) /\ WF_vars(FtCall) /\ WF_vars(WasfCall)

\* ------------------------------------------------------------------------
\* Properties of the scanner
\* ------------------------------------------------------------------------
\* the address with index i has no transactions and was not spent from
Unused(i) == FindTransactions(i) = <<>> /\ ~WereSpentFrom(i)

\* C1: the k-th result yielded (k = 0, 1, 2, ...) is the address with index
\* start + k: no yielded index is below start, none is skipped or repeated.
C1_ContiguousIndices ==
    \A k \in 1..Len(yielded) : yielded[k][1] = start + (k - 1)

\* three results from a start above 0, behind an address that was spent
\* from and had no transactions
C1_Witness ==
    /\ start = 1
    /\ Len(yielded) = 3
    /\ yielded[2][2] = <<>>

\* C2: once find-transactions is empty and were-addresses-spent-from is
\* false for index i the scan is over: nothing is yielded for i or a later
\* index and no query is issued for an index above i.
C2_StopsAtFirstUnused ==
    \A k \in 1..Len(wasfLog) :
        wasfLog[k][2] = FALSE =>
            LET i == wasfLog[k][1] IN
            /\ spc = "done"
            /\ ~pending
            /\ ~ENABLED ScanNext
            /\ k = Len(wasfLog)
            /\ ftLog[Len(ftLog)] = <<i, <<>>>>
            /\ \A y \in 1..Len(yielded) : yielded[y][1] < i
            /\ \A f \in 1..Len(ftLog) : ftLog[f][1] <= i
            /\ \A w \in 1..Len(wasfLog) : wasfLog[w][1] <= i

\* the scan ended at an index whose successor has transactions
C2_Witness ==
    /\ spc = "done"
    /\ Len(yielded) >= 1
    /\ idx + 1 < MaxIndex
    /\ findTx[idx + 1] # <<>>

\* C3: an address for which find-transactions returns hashes is yielded and
\* were-addresses-spent-from is never called for it; that query is issued
\* only for addresses whose find-transactions result was empty.
C3_SpentQueryOnlyWithoutTransactions ==
    /\ \A f \in 1..Len(ftLog) :
        ftLog[f][2] # <<>> =>
            /\ \E y \in 1..Len(yielded) : yielded[y] = ftLog[f]
            /\ \A w \in 1..Len(wasfLog) : wasfLog[w][1] # ftLog[f][1]
    /\ \A w \in 1..Len(wasfLog) :
        \E f \in 1..Len(ftLog) : ftLog[f] = <<wasfLog[w][1], <<>>>>

\* an address with transactions was yielded after an address without
\* transactions had been checked for spending
C3_Witness ==
    /\ Len(wasfLog) >= 1
    /\ Len(yielded) >= 2
    /\ yielded[Len(yielded)][2] # <<>>
    /\ yielded[Len(yielded)][1] > wasfLog[1][1]

\* C4 as stated: for every ledger and every start index a consumer that
\* keeps pulling eventually receives end-of-sequence.
C4_AlwaysFinite == (spc = "created") => <>(spc = "done")

\* C4 as amended: if some address at or after the start index has no
\* transactions and was not spent from, a consumer that keeps pulling
\* eventually receives end-of-sequence.
C4_FiniteIfUnusedAhead ==
    (spc = "created" /\ \E i \in start..IndexCap : Unused(i))
        => <>(spc = "done")

\* end-of-sequence was delivered after results from both branches
C4_Witness ==
    /\ spc = "done"
    /\ \E i \in start..IndexCap : Unused(i)
    /\ \E y \in 1..Len(yielded) : yielded[y][2] = <<>>
    /\ \E y \in 1..Len(yielded) : yielded[y][2] # <<>>

\* the ledger of the example: find(A0) = {h1}, find(A1) = {}, A1 spent,
\* find(A2) = {}, A2 not spent
ExampleLedger ==
    /\ spc # "off"
    /\ start = 0
    /\ findTx[0] = <<1>>
    /\ findTx[1] = <<>> /\ spent[1]
    /\ findTx[2] = <<>> /\ ~spent[2]

\* C5: a result carries exactly the hashes find-transactions returned for
\* its address when there are any, and the empty list when there are none
\* and the address was spent from; on the example ledger the whole sequence
\* is [(A0, {h1}), (A1, {})].
C5_YieldedHashes ==
    /\ \A k \in 1..Len(yielded) :
        /\ yielded[k][2] = FindTransactions(yielded[k][1])
        /\ yielded[k][2] = <<>> => WereSpentFrom(yielded[k][1])
    /\ (ExampleLedger /\ spc = "done") =>
            yielded = << <<0, <<1>>>>, <<1, <<>>>> >>

\* the scan of the example ledger has ended
C5_Witness == ExampleLedger /\ spc = "done" /\ Len(yielded) = 2

\* ------------------------------------------------------------------------
\* Properties of the resolver
\* ------------------------------------------------------------------------
\* the tail transaction of bundle b
TailOf(b) == CHOOSE h \in TailHashes : BundleOf(h) = b

\* how often x occurs in the list s
Count(s, x) == Cardinality({k \in DOMAIN s : s[k] = x})

\* the tail hashes of the bundles in a list
TailsIn(bundles) == [k \in DOMAIN bundles |-> bundles[k].tail]

\* no tail hash is given more than once
NoRepeatedTail == \A h \in TailHashes : Count(input, h) <= 1

\* the bundles the input hashes belong to
InputBundles == {BundleOf(input[k]) : k \in DOMAIN input}

\* C6: an empty collection of hashes returns an empty list and issues no
\* facade call, whatever inclusion_states is.
C6_EmptyInputShortCircuit ==
    (rpc # "off" /\ input = <<>>) =>
        /\ rpc \in {"called", "done"}
        /\ rpc = "done" => result = <<>>
        /\ calls = <<>>
        /\ gtCalls = <<>> /\ ftoCalls = <<>>
        /\ gliCalls = <<>> /\ gbCalls = <<>>

\* the call with an empty input and inclusion_states set has returned
C6_Witness == rpc = "done" /\ input = <<>> /\ inclusion

\* C7: the returned list ascends by tail-transaction timestamp for every
\* order of the input hashes; for input hashes (no tail given twice)
\* spanning two bundles with tail timestamps T1 < T2 the result is
\* [bundle(T1), bundle(T2)].
C7_AscendingByTailTimestamp ==
    rpc = "done" =>
        /\ \A i, j \in 1..Len(result) :
            i < j => result[i].timestamp <= result[j].timestamp
        /\ \A b1, b2 \in Bundles :
            (/\ NoRepeatedTail
             /\ InputBundles = {b1, b2}
             /\ timestamp[b1] < timestamp[b2])
                => TailsIn(result) = <<TailOf(b1), TailOf(b2)>>

\* the later bundle was given first and by its tail hash, the earlier one
\* by a non-tail hash
C7_Witness ==
    /\ rpc = "done"
    /\ input = <<1, 5>>
    /\ timestamp["B"] < timestamp["A"]
    /\ TailsIn(result) = <<4, 1>>

\* C8: when the input (no tail given twice) holds distinct hashes of the
\* same bundle, the tail hash of that bundle is requested from get-bundles
\* exactly once and the result holds exactly one bundle for it.
C8_OneBundleForSharedHashes ==
    (rpc = "done" /\ NoRepeatedTail) =>
        \A b \in Bundles :
            (\E i, j \in DOMAIN input :
                /\ input[i] # input[j]
                /\ BundleOf(input[i]) = b
                /\ BundleOf(input[j]) = b)
            => /\ Len(gbCalls) = 1
               /\ Count(gbCalls[1], TailOf(b)) = 1
               /\ Count(TailsIn(result), TailOf(b)) = 1

\* a non-tail hash, the tail hash and a second non-tail hash of bundle A
C8_Witness ==
    /\ rpc = "done"
    /\ input = <<2, 1, 3>>
    /\ gbCalls = << <<1>> >>

\* C9: when the input holds the same hash more than once, the list of tail
\* hashes passed to get-bundles holds no hash twice and the result holds no
\* bundle twice.
C9_RepeatedHashResolvedOnce ==
    rpc = "done" =>
        /\ \A c \in 1..Len(gbCalls) :
            \A h \in Hashes : Count(gbCalls[c], h) <= 1
        /\ \A h \in Hashes : Count(TailsIn(result), h) <= 1

\* C10: with inclusion_states set, every returned bundle's confirmation
\* flag is the state get-latest-inclusion-states reported for the hash of
\* that bundle's own tail transaction, for every get-bundles response.
C10_FlagOfOwnTail ==
    (rpc = "done" /\ inclusion) =>
        \A k \in 1..Len(result) :
            result[k].is_confirmed = InclusionState(result[k].tail)

\* C11: without inclusion_states, get-latest-inclusion-states is never
\* called and no confirmation flag is written: the flag of every tail
\* transaction and of every returned bundle stays unset.
C11_NoStatesUnlessRequested ==
    (rpc # "off" /\ ~inclusion) =>
        /\ gliCalls = <<>>
        /\ \A c \in DOMAIN calls : calls[c] # "get-latest-inclusion-states"
        /\ \A k \in DOMAIN tailTxns : tailTxns[k].is_confirmed = "none"
        /\ \A k \in DOMAIN result : result[k].is_confirmed = "none"

\* two bundles were returned without inclusion states although the ledger
\* has a state for both tails
C11_Witness ==
    /\ rpc = "done"
    /\ ~inclusion
    /\ Len(result) = 2
    /\ states[1] = "true" /\ states[4] = "false"

\* ------------------------------------------------------------------------
\* Properties of failing calls
\* ------------------------------------------------------------------------
\* C12: when a find-transactions or were-addresses-spent-from call fails,
\* the failure reaches the consumer at that pull and the scan is over: no
\* retry, no query for a later index, no further result; the results
\* yielded before are unchanged.
C12_FailureEndsScan ==
    /\ [](scanError \in {"find-transactions", "were-addresses-spent-from"} =>
            /\ spc = "failed"
            /\ ~pending
            /\ ~ENABLED (ScanNext \/ ScanFail)
            /\ \A f \in 1..Len(ftLog) : ftLog[f][1] <= idx
            /\ \A w \in 1..Len(wasfLog) : wasfLog[w][1] <= idx
            /\ \A y \in 1..Len(yielded) : yielded[y][1] < idx)
    /\ [][scanError' # scanError =>
            /\ ~pending'
            /\ yielded' = yielded
            /\ ftLog' = ftLog
            /\ wasfLog' = wasfLog]_vars

\* were-addresses-spent-from failed after two results had been yielded
C12_Witness ==
    /\ spc = "failed"
    /\ scanError = "were-addresses-spent-from"
    /\ Len(yielded) = 2

\* C13: when a facade call of the resolver fails, the call ends with that
\* failure: no bundle list is returned, the failed call is not retried and
\* no call of a later phase is issued.
C13_FailureEndsResolve ==
    resError # "none" =>
        /\ rpc = "failed"
        /\ result = <<>>
        /\ ~ENABLED (ResolveNext \/ ResolveFail)
        /\ calls[Len(calls)] = resError
        /\ Count(calls, resError) = 1

\* get-latest-inclusion-states failed as the third call
C13_Witness ==
    /\ rpc = "failed"
    /\ resError = "get-latest-inclusion-states"
    /\ Len(calls) = 3
    /\ tailTxns # <<>>

PhaseOf(command) ==
    IF command = "get-trytes" THEN 1
    ELSE IF command = "find-transaction-objects" THEN 2
    ELSE IF command = "get-latest-inclusion-states" THEN 3
    ELSE 4

\* C15: on a non-empty input the facade calls occur in the order get-trytes,
\* find-transaction-objects, get-latest-inclusion-states, get-bundles, each
\* at most once: get-trytes and get-bundles exactly once,
\* find-transaction-objects only when a decoded input transaction is not a
\* tail, get-latest-inclusion-states only when inclusion_states is set.
C15_PhasesInOrder ==
    /\ \A i, j \in DOMAIN calls :
        i < j => PhaseOf(calls[i]) < PhaseOf(calls[j])
    /\ (rpc = "done" /\ input # <<>>) =>
        /\ Count(calls, "get-trytes") = 1
        /\ Count(calls, "get-bundles") = 1
        /\ calls[1] = "get-trytes"
        /\ calls[Len(calls)] = "get-bundles"
    /\ Count(calls, "find-transaction-objects") > 0 =>
        \E k \in DOMAIN allTxns : ~allTxns[k].is_tail
    /\ Count(calls, "get-latest-inclusion-states") > 0 => inclusion

\* a run that issued all four calls
C15_Witness ==
    /\ rpc = "done"
    /\ calls = <<"get-trytes", "find-transaction-objects",
                 "get-latest-inclusion-states", "get-bundles">>

\* the elements of a list
Range(s) == {s[k] : k \in DOMAIN s}

\* C16: the result is a reordering of the get-bundles response: every
\* returned bundle is one the facade returned, none is added or dropped; when
\* get-trytes, find-transaction-objects or get-bundles deliver fewer items
\* than requested the result is shorter and the call does not fail.
C16_ResultReordersResponse ==
    /\ rpc # "failed" /\ resError = "none"
    /\ rpc = "fto" => FindTransactionObjectsResponses(nonTailBundles) # {}
    /\ rpc = "done" =>
        /\ Len(result) = Len(gbResponse)
        /\ \A h \in Hashes :
            Count(TailsIn(result), h) = Count(TailsIn(gbResponse), h)
        /\ \A k \in DOMAIN result :
            [result[k] EXCEPT !.is_confirmed = "none"]
                = BundleFor(result[k].tail)
        /\ input # <<>> => Len(gbResponse) <= Len(gbCalls[1])

\* get-bundles delivered one bundle for two tails, both with the same
\* timestamp
C16_Witness ==
    /\ rpc = "done"
    /\ pruned # {}
    /\ gbCalls # <<>>
    /\ Len(gbCalls[1]) = 2
    /\ Len(gbResponse) = 1
    /\ Len(result) = 1
    /\ timestamp["A"] = timestamp["B"]

\* the tails the input leads to: those given and those of the bundles of
\* the non-tail hashes given
ExpectedTails ==
    {input[k] : k \in {j \in DOMAIN input : IsTail(input[j])}}
        \cup {TailOf(BundleOf(input[k])) :
                k \in {j \in DOMAIN input : ~IsTail(input[j])}}

\* C17: the list passed to get-bundles holds only hashes of tail
\* transactions and is, as a set, the final tail-hash set (tails given as
\* input plus tails discovered); a non-tail input hash is never passed, and
\* with inclusion_states the same set goes to get-latest-inclusion-states.
C17_BundlesRequestedByTail ==
    /\ \A c \in DOMAIN gbCalls :
        /\ Range(gbCalls[c]) = tailHashes
        /\ tailHashes = ExpectedTails
        /\ \A h \in Range(gbCalls[c]) : IsTail(h)
        /\ inclusion => gliCalls = <<Range(gbCalls[c])>>
    /\ \A c \in DOMAIN gliCalls :
        gliCalls[c] = tailHashes /\ tailHashes = ExpectedTails

\* a non-tail hash of B, the tail of A and a non-tail hash of A were given
C17_Witness ==
    /\ rpc = "done"
    /\ inclusion
    /\ input = <<5, 1, 2>>
    /\ gbCalls = << <<1, 4>> >>

\* how many results carry no hashes
SpentResults == Cardinality({y \in DOMAIN yielded : yielded[y][2] = <<>>})

\* C18: the scanner queries only while a pull is pending, one
\* find-transactions call and at most one were-addresses-spent-from call
\* per pull; the query for the next index waits for the next pull: after k
\* results there have been k find-transactions calls, none for start + k.
C18_PullDriven ==
    /\ [](idx < IndexCap =>
            /\ spc = "created" => ~pending /\ ftLog = <<>> /\ wasfLog = <<>>
            /\ spc = "ft" =>
                /\ pending
                /\ Len(ftLog) = Len(yielded)
                /\ Len(wasfLog) = SpentResults
            /\ spc = "wasf" =>
                /\ pending
                /\ Len(ftLog) = Len(yielded) + 1
                /\ Len(wasfLog) = SpentResults
            /\ spc = "yielded" =>
                /\ ~pending
                /\ Len(ftLog) = Len(yielded)
                /\ Len(wasfLog) = SpentResults
                /\ \A f \in 1..Len(ftLog) :
                    ftLog[f][1] = start + (f - 1)
            /\ spc = "done" =>
                /\ ~pending
                /\ Len(ftLog) = Len(yielded) + 1
                /\ Len(wasfLog) = SpentResults + 1)
    /\ [][(ftLog' # ftLog \/ wasfLog' # wasfLog) =>
            /\ pending
            /\ Len(ftLog') + Len(wasfLog') = Len(ftLog) + Len(wasfLog) + 1]_vars

\* the consumer is holding two results and has not pulled again although
\* the next address has transactions
C18_Witness ==
    /\ spc = "yielded"
    /\ ~pending
    /\ Len(yielded) = 2
    /\ Len(ftLog) = 2
    /\ FindTransactions(start + 2) # <<>>

\* every bundle has at most one of its hashes in the input
OneHashPerBundle ==
    \A i, j \in DOMAIN input :
        BundleOf(input[i]) = BundleOf(input[j]) => i = j

\* where the hash that resolves to bundle b stands in the input
InputPosition(b) == CHOOSE k \in DOMAIN input : BundleOf(input[k]) = b

\* the tails of the bundles with timestamp t, in the order of the list
RECURSIVE TailsAt(_, _)
TailsAt(bundles, t) ==
    IF bundles = <<>> THEN <<>>
    ELSE IF Head(bundles).timestamp = t
         THEN <<Head(bundles).tail>> \o TailsAt(Tail(bundles), t)
         ELSE TailsAt(Tail(bundles), t)

\* C19 as stated: two returned bundles with equal tail timestamps stand in
\* the order of the input hashes that resolved to them, also when one was
\* given by its tail hash and the other by a non-tail hash.
C19_TiesInInputOrder ==
    (rpc = "done" /\ OneHashPerBundle) =>
        \A i, j \in DOMAIN result :
            (i < j /\ result[i].timestamp = result[j].timestamp) =>
                InputPosition(result[i].bundle_hash)
                    < InputPosition(result[j].bundle_hash)

\* C19 as amended: two returned bundles with equal tail timestamps stand in
\* the order of the get-bundles response; there the bundles given by their
\* tail hash come first, in input order, and a bundle whose tail was
\* discovered through find-transaction-objects comes behind them wherever
\* its non-tail hash stood in the input.
C19_TiesInResponseOrder ==
    rpc = "done" =>
        /\ \A t \in 1..MaxTimestamp :
            TailsAt(result, t) = TailsAt(gbResponse, t)
        /\ OneHashPerBundle =>
            \A i, j \in DOMAIN result :
                (/\ i < j
                 /\ result[i].timestamp = result[j].timestamp
                 /\ IsTail(input[InputPosition(result[j].bundle_hash)]))
                => /\ IsTail(input[InputPosition(result[i].bundle_hash)])
                   /\ InputPosition(result[i].bundle_hash)
                        < InputPosition(result[j].bundle_hash)

\* B was given first, by a non-tail hash, A second, by its tail hash; with
\* equal timestamps A is returned first
C19_Witness ==
    /\ rpc = "done"
    /\ input = <<5, 1>>
    /\ timestamp["A"] = timestamp["B"]
    /\ TailsIn(result) = <<1, 4>>

\* C20: with inclusion_states set and no state reported for some tail hash
\* the call does not fail: the flag of that tail transaction and of its
\* bundle is absent, the flags of the others are set from the response.
C20_MissingStateLeavesFlagUnset ==
    (inclusion /\ \E h \in tailHashes : InclusionState(h) = "none") =>
        /\ rpc # "failed"
        /\ rpc \in {"gb", "done"} =>
            \A k \in DOMAIN tailTxns :
                tailTxns[k].is_confirmed = states[tailTxns[k].hash]
        /\ rpc = "done" =>
            /\ Len(result) = Len(tailTxns)
            /\ \A k \in DOMAIN result :
                result[k].is_confirmed = states[result[k].tail]

\* two bundles were returned, one without a state and one confirmed
C20_Witness ==
    /\ rpc = "done"
    /\ inclusion
    /\ Len(result) = 2
    /\ states[1] = "none" /\ states[4] = "true"
    /\ \E k \in DOMAIN result :
        result[k].tail = 1 /\ result[k].is_confirmed = "none"

====
